---- MODULE Spec2Model ----
(***************************************************************************)
(* Model of the sync/async bridging layer of llmchat-web:                  *)
(*   - the process-wide LLMCore handle and its initialization (app.py),    *)
(*   - async_to_sync_in_flask (app.py),                                    *)
(*   - run_async_generator_synchronously (routes.py),                      *)
(*   - the chat SSE helper _stream_chat_responses_route_helper             *)
(*     (routes/chat_routes.py).                                            *)
(* asyncio itself (event loops, async generators, their hooks) is modelled *)
(* by what CPython's asyncio does for the calls the code makes.            *)
(***************************************************************************)
EXTENDS Integers, Sequences, FiniteSets, TLC

(***************************************************************************)
(* Bounds                                                                  *)
(***************************************************************************)
NumCallers == 2        \* external callers of initialize_llmcore_async
MaxCreateCalls == 3    \* cap on LLMCore.create() invocations in a run
NumThreads == 2        \* request-handling threads
MaxLoops == 2          \* cap on event loops created in a run
NumGens == 2           \* generator objects returned by run_async_generator_synchronously
MaxItems == 2          \* cap on the items an async generator produces
MaxFiles == 2          \* cap on the files of one upload

(***************************************************************************)
(* Python values                                                           *)
(***************************************************************************)
NoInstance == 0        \* llmcore_instance = None
NoError == ""          \* llmcore_init_error = None
NoLoop == 0            \* no event loop

VARIABLES
    llmcore_instance,    \* app.llmcore_instance: NoInstance or the id of an LLMCore object
    llmcore_init_error,  \* app.llmcore_init_error: NoError or the recorded message
    createCalls,         \* number of LLMCore.create() invocations so far
    loadPhase,           \* where the execution of app.py's module body stands
    runAsMain,           \* app.py is executed with __name__ == "__main__"
    initPc,              \* per external caller: position inside initialize_llmcore_async
    initCall,            \* per external caller: index of the create() call it awaits
    initUninit,          \* per external caller: the handle was uninitialized when it entered
    initObserved         \* per external caller: <<instance, error>> seen when it returned

handleVars == <<llmcore_instance, llmcore_init_error, createCalls, loadPhase,
                runAsMain, initPc, initCall, initUninit, initObserved>>

VARIABLES
    routes_llmcore_instance, \* the name llmcore_instance bound in the route modules
    routes_llmcore_init_error, \* the name llmcore_init_error bound in the route modules
    nextLoop,            \* id the next asyncio.new_event_loop() returns
    loops,               \* every event loop: lifecycle, origin, creating thread, drivers, closers
    running,             \* per thread: the loop asyncio.get_running_loop() returns, or NoLoop
    current,             \* per thread: the loop set by asyncio.set_event_loop, or NoLoop
    wrap,                \* per thread: the async_to_sync_in_flask call in progress / last finished
    gens,                \* per generator object of run_async_generator_synchronously: its frame,
                         \* the async generator it drives, and what its consumer received
    logged               \* error-level log records written by the bridge

asyncVars == <<nextLoop, loops, running, current, wrap, gens, logged>>

bridgeVars == <<routes_llmcore_instance, routes_llmcore_init_error, asyncVars>>

VARIABLES
    resp,                \* per thread: the HTTP response its last route handler returned
    coreCalls            \* LLMCore methods invoked by route code, each with the value
                         \* app.llmcore_instance had at the time of the call

routeVars == <<resp, coreCalls>>

VARIABLES
    ingest,              \* the stream_file_ingestion_progress generator of one upload
    current_llm_session_id \* flask_session['current_llm_session_id'] of the client

requestVars == <<ingest, current_llm_session_id>>

vars == <<handleVars, bridgeVars, routeVars, requestVars>>

(***************************************************************************)
(* The LLMCore handle (app.py)                                             *)
(***************************************************************************)
Callers == 1..NumCallers

\* What `await LLMCore.create()` can do: return an instance or raise.
CreateOutcomes ==
    {[ok |-> TRUE, cls |-> "", msg |-> ""]} \cup
    {[ok |-> FALSE, cls |-> c, msg |-> "boom"] :
        c \in {"ConfigError", "LLMCoreError", "Exception"}}

\* The three except clauses of initialize_llmcore_async build the message.
InitErrorMsg(cls, e) ==
    CASE cls = "ConfigError" ->
            "LLMCore Configuration Error: " \o e \o ". LLMCore functionality will be unavailable."
      [] cls = "LLMCoreError" ->
            "LLMCore Initialization Error: " \o e \o ". LLMCore functionality will be unavailable."
      [] OTHER ->
            "Unexpected error during LLMCore initialization: " \o e \o ". LLMCore functionality will be unavailable."

\* The entry guard of initialize_llmcore_async: it skips only when an
\* instance exists; a recorded error does not stop it.
InitSkips == llmcore_instance # NoInstance

\* Mutant: the success path does not clear llmcore_init_error.
AfterCreateKeepsError(out, k) ==
    IF out.ok THEN <<k, llmcore_init_error>>
    ELSE <<NoInstance, InitErrorMsg(out.cls, out.msg)>>

\* Mutant: the except clauses log the error but do not record it.
AfterCreateSilent(out, k) ==
    IF out.ok THEN <<k, NoError>> ELSE <<NoInstance, NoError>>

\* Globals after create() call number k finished with outcome out:
\* <<llmcore_instance, llmcore_init_error>>.
AfterCreate(out, k) ==
    IF out.ok THEN <<k, NoError>>
    ELSE <<NoInstance, InitErrorMsg(out.cls, out.msg)>>

Uninitialized == llmcore_instance = NoInstance /\ llmcore_init_error = NoError

\* Messages of a RuntimeError that asyncio.run() can raise before running the
\* coroutine; the guards look for one particular text.
RuntimeErrorMsgs ==
    {"asyncio.run() cannot be called from a running event loop",
     "run() cannot be called when another loop is running",
     "can't start new thread"}

\* The guards' test: "cannot be called when another loop is running" in str(e).
IsAnotherLoopMsg(m) == m \in {"run() cannot be called when another loop is running"}

\* What asyncio.run(initialize_llmcore_async()) can do in a guard.
RunOutcomes ==
    {[kind |-> "ran", create |-> o, msg |-> ""] : o \in CreateOutcomes} \cup
    {[kind |-> "runtime_error", create |-> [ok |-> TRUE, cls |-> "", msg |-> ""], msg |-> m] :
        m \in RuntimeErrorMsgs} \cup
    {[kind |-> "exception", create |-> [ok |-> TRUE, cls |-> "", msg |-> ""], msg |-> "oserror"]}

\* The module-load guard (runs once, while app.py is being imported).
ModuleLoadGuard(r) ==
    /\ loadPhase = "module_load"
    /\ loadPhase' = "blueprints"
    /\ IF ~Uninitialized
       THEN UNCHANGED <<llmcore_instance, llmcore_init_error, createCalls>>
       ELSE CASE r.kind = "ran" ->
                   /\ createCalls' = createCalls + 1
                   /\ LET g == AfterCreate(r.create, createCalls + 1) IN
                      /\ llmcore_instance' = g[1]
                      /\ llmcore_init_error' = g[2]
              [] r.kind = "runtime_error" /\ IsAnotherLoopMsg(r.msg) ->
                   UNCHANGED <<llmcore_instance, llmcore_init_error, createCalls>>
              [] r.kind = "runtime_error" /\ ~IsAnotherLoopMsg(r.msg) ->
                   /\ llmcore_init_error' =
                        "Critical unhandled RuntimeError during LLMCore init at module load: " \o r.msg
                   /\ llmcore_instance' = NoInstance
                   /\ UNCHANGED createCalls
              [] OTHER ->
                   /\ llmcore_init_error' =
                        "Unexpected error during LLMCore init at module load: " \o r.msg
                   /\ llmcore_instance' = NoInstance
                   /\ UNCHANGED createCalls
    /\ UNCHANGED <<runAsMain, initPc, initCall, initUninit, initObserved, bridgeVars, routeVars, requestVars>>

\* app.py imports the routes package; the route modules bind the value that
\* app.llmcore_instance has at that moment to their own name llmcore_instance,
\* and likewise for llmcore_init_error.
RegisterBlueprints ==
    /\ loadPhase = "blueprints"
    /\ loadPhase' = IF runAsMain THEN "direct_run" ELSE "serving"
    /\ routes_llmcore_instance' = llmcore_instance
    /\ routes_llmcore_init_error' = llmcore_init_error
    /\ UNCHANGED <<llmcore_instance, llmcore_init_error, createCalls, runAsMain,
                   initPc, initCall, initUninit, initObserved, asyncVars, routeVars, requestVars>>

\* The direct-run guard (python -m llmchat_web.app), after the module body.
DirectRunGuard(r) ==
    /\ loadPhase = "direct_run"
    /\ loadPhase' = "serving"
    /\ IF ~Uninitialized
       THEN UNCHANGED <<llmcore_instance, llmcore_init_error, createCalls>>
       ELSE CASE r.kind = "ran" ->
                   /\ createCalls' = createCalls + 1
                   /\ LET g == AfterCreate(r.create, createCalls + 1) IN
                      /\ llmcore_instance' = g[1]
                      /\ llmcore_init_error' = g[2]
              [] r.kind = "runtime_error" /\ IsAnotherLoopMsg(r.msg) ->
                   UNCHANGED <<llmcore_instance, llmcore_init_error, createCalls>>
              [] r.kind = "runtime_error" /\ ~IsAnotherLoopMsg(r.msg) ->
                   /\ llmcore_init_error' =
                        "RuntimeError during LLMCore init (direct run): " \o r.msg
                   /\ llmcore_instance' = NoInstance
                   /\ UNCHANGED createCalls
              [] OTHER ->
                   /\ llmcore_init_error' = "Failed during asyncio.run (direct run): " \o r.msg
                   /\ llmcore_instance' = NoInstance
                   /\ UNCHANGED createCalls
    /\ UNCHANGED <<runAsMain, initPc, initCall, initUninit, initObserved, bridgeVars, routeVars, requestVars>>

\* An external startup mechanism enters initialize_llmcore_async: either the
\* entry guard returns at once, or LLMCore.create() is called and awaited.
InitEnter(c) ==
    /\ loadPhase = "serving"
    /\ initPc[c] \in {"idle", "returned"}
    /\ initUninit' = [initUninit EXCEPT ![c] = Uninitialized]
    /\ IF InitSkips
       THEN /\ initPc' = [initPc EXCEPT ![c] = "returned"]
            /\ initObserved' = [initObserved EXCEPT ![c] = <<llmcore_instance, llmcore_init_error>>]
            /\ UNCHANGED <<createCalls, initCall>>
       ELSE /\ createCalls < MaxCreateCalls
            /\ createCalls' = createCalls + 1
            /\ initCall' = [initCall EXCEPT ![c] = createCalls + 1]
            /\ initPc' = [initPc EXCEPT ![c] = "awaiting"]
            /\ UNCHANGED initObserved
    /\ UNCHANGED <<llmcore_instance, llmcore_init_error, loadPhase, runAsMain, bridgeVars, routeVars, requestVars>>

\* The awaited LLMCore.create() of caller c completes; the globals are
\* assigned and the coroutine returns.
InitResume(c, out) ==
    /\ initPc[c] = "awaiting"
    /\ LET g == AfterCreate(out, initCall[c]) IN
       /\ llmcore_instance' = g[1]
       /\ llmcore_init_error' = g[2]
       /\ initObserved' = [initObserved EXCEPT ![c] = g]
    /\ initPc' = [initPc EXCEPT ![c] = "returned"]
    /\ UNCHANGED <<createCalls, loadPhase, runAsMain, initCall, initUninit, bridgeVars, routeVars, requestVars>>

(***************************************************************************)
(* asyncio: event loops as the bridge uses them                            *)
(***************************************************************************)
Threads == 1..NumThreads
Loops == 1..MaxLoops
Gens == 1..NumGens

NoOutcome == [kind |-> "none", type |-> "", msg |-> ""]
Return(v) == [kind |-> "return", type |-> "", msg |-> v]
Raise(x, m) == [kind |-> "raise", type |-> x, msg |-> m]

AbsentLoop ==
    [state |-> "absent", origin |-> "none", thread |-> 0,
     drivers |-> {}, closers |-> {}]

\* asyncio.new_event_loop() called on thread t by `origin`.
NewLoop(t, origin) ==
    [state |-> "open", origin |-> origin, thread |-> t,
     drivers |-> {}, closers |-> {}]

BridgeOrigins == {"wrapper", "generator"}

\* BaseEventLoop.run_until_complete(l) called on thread t: the RuntimeError of
\* _check_closed / _check_running, or "" when the loop may run.
RunUntilCompleteError(l, t) ==
    IF loops[l].state = "closed" THEN "Event loop is closed"
    ELSE IF \E u \in Threads : running[u] = l THEN "This event loop is already running"
    ELSE IF running[t] # NoLoop
         THEN "Cannot run the event loop while another loop is running"
    ELSE ""

\* loop.shutdown_asyncgens() closes the async generators that the loop's
\* firstiter hook registered and that are not finished yet.
RegisteredAsyncGens(gs, l) ==
    {g \in Gens : gs[g].agLoop = l /\ gs[g].agState \in {"created", "suspended"}}

CloseAsyncGens(gs, closed, how) ==
    [g \in Gens |->
        IF g \in closed
        THEN [gs[g] EXCEPT !.agState = "closed",
                           !.agFinal = IF gs[g].agState = "suspended" THEN how ELSE @]
        ELSE gs[g]]

\* A foreign owner (an ASGI server, asyncio.run in a caller) starts a loop on
\* thread t; code running on t is now inside a running loop.
ForeignLoopStart(t) ==
    /\ wrap[t].pc = "idle"
    /\ running[t] = NoLoop
    /\ nextLoop <= MaxLoops
    /\ loops' = [loops EXCEPT ![nextLoop] = NewLoop(t, "foreign")]
    /\ nextLoop' = nextLoop + 1
    /\ running' = [running EXCEPT ![t] = nextLoop]
    /\ current' = [current EXCEPT ![t] = nextLoop]
    /\ UNCHANGED <<wrap, gens, logged, routes_llmcore_instance, routes_llmcore_init_error, handleVars, routeVars, requestVars>>

\* The foreign owner finishes: it shuts down its async generators, closes its
\* loop and unsets it.
ForeignLoopStop(t) ==
    /\ wrap[t].pc = "idle"
    /\ running[t] # NoLoop
    /\ LET f == running[t] IN
       /\ loops' = [loops EXCEPT ![f].state = "closed"]
       /\ gens' = CloseAsyncGens(gens, RegisteredAsyncGens(gens, f), "foreign_loop")
       /\ current' = [current EXCEPT ![t] = IF @ = f THEN NoLoop ELSE @]
    /\ running' = [running EXCEPT ![t] = NoLoop]
    /\ UNCHANGED <<nextLoop, wrap, logged, routes_llmcore_instance, routes_llmcore_init_error, handleVars, routeVars, requestVars>>

(***************************************************************************)
(* async_to_sync_in_flask (app.py)                                         *)
(***************************************************************************)
\* What the wrapped coroutine does when it is driven.
CoroOutcomes ==
    {Return("value"), Raise("ValueError", "boom"), Raise("LLMCoreError", "bad")}

\* What the shutdown coroutine (_shutdown_loop_tasks) does when it is driven.
ShutdownOutcomes == {"ok", "fail"}

IdleCall ==
    [pc |-> "idle", loop |-> NoLoop, created |-> FALSE, coro |-> NoOutcome,
     driven |-> FALSE, pending |-> NoOutcome, result |-> NoOutcome]

\* Mutant: the wrapper takes its loop from a process-wide cache instead of
\* creating one for the call.
WrapperAcquireLoopShared(t) ==
    IF running[t] # NoLoop
    THEN [loop |-> running[t], created |-> FALSE]
    ELSE IF \E l \in Loops : loops[l].state = "open" /\ loops[l].origin \in BridgeOrigins
    THEN [loop |-> CHOOSE l \in Loops :
                      loops[l].state = "open" /\ loops[l].origin \in BridgeOrigins,
          created |-> FALSE]
    ELSE [loop |-> nextLoop, created |-> TRUE]

\* Mutant: the wrapper marks a running loop it found as created by itself.
WrapperAcquireLoopClaimsFound(t) ==
    IF running[t] # NoLoop
    THEN [loop |-> running[t], created |-> TRUE]
    ELSE [loop |-> nextLoop, created |-> TRUE]

\* wrapper, first try block: the running loop if there is one, else a new loop.
WrapperAcquireLoop(t) ==
    IF running[t] # NoLoop
    THEN [loop |-> running[t], created |-> FALSE]
    ELSE [loop |-> nextLoop, created |-> TRUE]

\* Mutant: the finally block without its `except Exception`: a failing
\* shutdown coroutine raises out of the block.
WrapperTeardownUncaught(l, t, td) ==
    LET ran == RunUntilCompleteError(l, t) = ""
        closed == IF ran /\ td = "ok" THEN RegisteredAsyncGens(gens, l) ELSE {}
    IN [loops |-> [loops EXCEPT ![l] =
                      [@ EXCEPT !.drivers = IF ran THEN @ \cup {t} ELSE @,
                                !.state = "closed",
                                !.closers = @ \cup {t}]],
        gens |-> CloseAsyncGens(gens, closed, "bridge_loop"),
        logged |-> logged,
        current |-> IF current[t] = l THEN [current EXCEPT ![t] = NoLoop] ELSE current,
        error |-> IF ~ran \/ td = "fail" THEN "shutdown failed"
                  ELSE IF current[t] = NoLoop THEN "There is no current event loop in thread"
                  ELSE ""]

\* Mutant: the finally block leaves the loop open and set, for the thread's
\* next call.
WrapperTeardownKeepsLoop(l, t, td) ==
    LET ran == RunUntilCompleteError(l, t) = ""
        closed == IF ran /\ td = "ok" THEN RegisteredAsyncGens(gens, l) ELSE {}
    IN [loops |-> [loops EXCEPT ![l] =
                      [@ EXCEPT !.drivers = IF ran THEN @ \cup {t} ELSE @]],
        gens |-> CloseAsyncGens(gens, closed, "bridge_loop"),
        logged |-> IF ran /\ td = "ok" THEN logged
                   ELSE logged \cup {"Error during shutdown of tasks/asyncgens in created loop"},
        current |-> current,
        error |-> ""]

\* Mutant: the finally block closes the loop but leaves it set as the
\* thread's current loop.
WrapperTeardownKeepsCurrent(l, t, td) ==
    LET ran == RunUntilCompleteError(l, t) = ""
        closed == IF ran /\ td = "ok" THEN RegisteredAsyncGens(gens, l) ELSE {}
    IN [loops |-> [loops EXCEPT ![l] =
                      [@ EXCEPT !.drivers = IF ran THEN @ \cup {t} ELSE @,
                                !.state = "closed",
                                !.closers = @ \cup {t}]],
        gens |-> CloseAsyncGens(gens, closed, "bridge_loop"),
        logged |-> IF ran /\ td = "ok" THEN logged
                   ELSE logged \cup {"Error during shutdown of tasks/asyncgens in created loop"},
        current |-> current,
        error |-> ""]

\* wrapper, finally block for a loop it created: drive the shutdown coroutine
\* (errors are logged), close the loop, unset it if it is the thread's current
\* loop. error is the exception the block itself raises, "" if none.
WrapperTeardown(l, t, td) ==
    LET ran == RunUntilCompleteError(l, t) = ""
        closed == IF ran /\ td = "ok" THEN RegisteredAsyncGens(gens, l) ELSE {}
    IN [loops |-> [loops EXCEPT ![l] =
                      [@ EXCEPT !.drivers = IF ran THEN @ \cup {t} ELSE @,
                                !.state = "closed",
                                !.closers = @ \cup {t}]],
        gens |-> CloseAsyncGens(gens, closed, "bridge_loop"),
        logged |-> IF ran /\ td = "ok" THEN logged
                   ELSE logged \cup {"Error during shutdown of tasks/asyncgens in created loop"},
        current |-> IF current[t] = l THEN [current EXCEPT ![t] = NoLoop] ELSE current,
        error |-> IF current[t] = NoLoop THEN "There is no current event loop in thread" ELSE ""]

\* The exception or value the wrapper hands to its caller: what
\* run_until_complete produced, unless the finally block itself raised.
WrapperResult(pending, teardownError) ==
    IF teardownError # "" THEN Raise("RuntimeError", teardownError) ELSE pending

\* Mutant: the coroutine is driven even though a loop is running on the thread
\* (scheduled into the running loop).
WrapperDriveNested(l, t, coro) == [driven |-> TRUE, pending |-> coro]

\* loop.run_until_complete(f(*args, **kwargs)): the coroutine is driven unless
\* run_until_complete refuses to run the loop.
WrapperDrive(l, t, coro) ==
    IF RunUntilCompleteError(l, t) # ""
    THEN [driven |-> FALSE, pending |-> Raise("RuntimeError", RunUntilCompleteError(l, t))]
    ELSE [driven |-> TRUE, pending |-> coro]

\* The call starts: obtain the loop (lines 212-226).
WrapperBegin(t, coro) ==
    /\ wrap[t].pc = "idle"
    /\ LET a == WrapperAcquireLoop(t) IN
       /\ a.created => nextLoop <= MaxLoops
       /\ wrap' = [wrap EXCEPT ![t] =
                      [pc |-> "acquired", loop |-> a.loop, created |-> a.created,
                       coro |-> coro, driven |-> FALSE, pending |-> NoOutcome,
                       result |-> NoOutcome]]
       /\ IF a.created
          THEN /\ loops' = [loops EXCEPT ![a.loop] = NewLoop(t, "wrapper")]
               /\ nextLoop' = nextLoop + 1
               /\ current' = [current EXCEPT ![t] = a.loop]
          ELSE UNCHANGED <<loops, nextLoop, current>>
    /\ UNCHANGED <<running, gens, logged, routes_llmcore_instance, routes_llmcore_init_error, handleVars, routeVars, requestVars>>

\* loop.run_until_complete(f(*args, **kwargs)) (line 228).
WrapperRun(t) ==
    /\ wrap[t].pc = "acquired"
    /\ LET l == wrap[t].loop
           d == WrapperDrive(l, t, wrap[t].coro)
       IN /\ wrap' = [wrap EXCEPT ![t].pc = "ran",
                                  ![t].driven = d.driven,
                                  ![t].pending = d.pending]
          /\ loops' = IF d.driven THEN [loops EXCEPT ![l].drivers = @ \cup {t}] ELSE loops
    /\ UNCHANGED <<nextLoop, running, current, gens, logged,
                   routes_llmcore_instance, routes_llmcore_init_error, handleVars, routeVars, requestVars>>

\* The finally block (lines 229-252), then the return or the raise.
WrapperEnd(t, td) ==
    /\ wrap[t].pc = "ran"
    /\ LET l == wrap[t].loop IN
       IF wrap[t].created /\ loops[l].state # "closed"
       THEN LET r == WrapperTeardown(l, t, td) IN
            /\ loops' = r.loops
            /\ gens' = r.gens
            /\ logged' = r.logged
            /\ current' = r.current
            /\ wrap' = [wrap EXCEPT ![t].pc = "idle", ![t].loop = NoLoop,
                                    ![t].pending = NoOutcome,
                                    ![t].result = WrapperResult(wrap[t].pending, r.error)]
       ELSE /\ wrap' = [wrap EXCEPT ![t].pc = "idle", ![t].loop = NoLoop,
                                    ![t].pending = NoOutcome,
                                    ![t].result = WrapperResult(wrap[t].pending, "")]
            /\ UNCHANGED <<loops, gens, logged, current>>
    /\ UNCHANGED <<nextLoop, running, routes_llmcore_instance, routes_llmcore_init_error, handleVars, routeVars, requestVars>>

(***************************************************************************)
(* Async generators handed to run_async_generator_synchronously            *)
(***************************************************************************)
NoChat == [session |-> FALSE, ctx |-> "none", lastId |-> "none", usage |-> "none"]

\* What a generator of the core library (or any plain async generator) does
\* when it is asked for its next item: produce one, finish, or raise.
SourceOutcomes(classes) ==
    {[kind |-> "item", cls |-> "", msg |-> ""], [kind |-> "stop", cls |-> "", msg |-> ""]} \cup
    {[kind |-> "raise", cls |-> c, msg |-> "boom"] : c \in classes}

StepItem(v, pc, pos) ==
    [kind |-> "item", item |-> v, err |-> NoOutcome, hpc |-> pc, agPos |-> pos]
StepStop(pos) ==
    [kind |-> "stop", item |-> 0, err |-> NoOutcome, hpc |-> "finished", agPos |-> pos]
StepRaise(x, m, pos) ==
    [kind |-> "raise", item |-> 0, err |-> Raise(x, m), hpc |-> "finished", agPos |-> pos]

\* One __anext__() of a plain generator that has produced pos items; the
\* items are numbered in the order the generator produces them.
PlainStep(src, pos) ==
    CASE src.kind = "item" -> StepItem(pos + 1, "none", pos + 1)
      [] src.kind = "stop" -> StepStop(pos)
      [] OTHER -> StepRaise(src.cls, src.msg, pos)

(***************************************************************************)
(* _stream_chat_responses_route_helper (routes/chat_routes.py)             *)
(***************************************************************************)
Frame(type, content) == [type |-> type, content |-> content]

ChunkText(k) == "chunk" \o ToString(k)

\* The exception classes of the first except clause.
LLMCoreErrors == {"ProviderError", "ContextLengthError", "SessionNotFoundError", "LLMCoreError"}

\* _get_last_assistant_message_id: None ("") without instance or session id,
\* and whenever the lookup raises or finds no assistant message.
LastAssistantMessageId(inst, session, lookup) ==
    IF inst = NoInstance \/ ~session THEN ""
    ELSE IF lookup = "found" THEN "msg1"
    ELSE ""

\* get_context_usage_info (app.py): None ("") without instance or session id,
\* and whenever the lookup raises or returns nothing.
ContextUsageInfo(inst, session, lookup) ==
    IF inst = NoInstance \/ ~session THEN ""
    ELSE IF lookup = "found" THEN "usage"
    ELSE ""

\* Mutant: a finally block that yields nothing.
HelperFinallySilent(pos) == StepStop(pos)

\* finally: the end frame.
HelperFinally(pos) == StepItem(Frame("end", ""), "end", pos)

\* Mutant: after the error frame the helper goes on with the post-stream
\* lookups.
HelperExceptResumes(cls, msg, pos) ==
    StepItem(Frame("error", IF cls \in LLMCoreErrors THEN msg
                            ELSE "An unexpected server error occurred during chat."),
             "rag", pos)

\* The two except clauses: one error frame.
HelperExcept(cls, msg, pos) ==
    StepItem(Frame("error", IF cls \in LLMCoreErrors THEN msg
                            ELSE "An unexpected server error occurred during chat."),
             "error", pos)

\* After full_response_id: context_usage if there is data.
HelperAfterId(in, pos) ==
    IF ContextUsageInfo(llmcore_instance, in.session, in.usage) # ""
    THEN StepItem(Frame("context_usage", "usage"), "usage", pos)
    ELSE HelperFinally(pos)

\* After rag_results: full_response_id if there is an id.
HelperAfterRag(in, pos) ==
    LET id == LastAssistantMessageId(routes_llmcore_instance, in.session, in.lastId) IN
    IF id # "" THEN StepItem(Frame("full_response_id", id), "resp_id", pos)
    ELSE HelperAfterId(in, pos)

\* The chat generator is exhausted: post-stream metadata.
HelperMeta(in, pos) ==
    IF ~in.session THEN HelperFinally(pos)
    ELSE CASE in.ctx = "raise_core" -> HelperExcept("LLMCoreError", "context info failed", pos)
           [] in.ctx = "raise_other" -> HelperExcept("Exception", "context info failed", pos)
           [] in.ctx = "rag" -> StepItem(Frame("rag_results", "docs"), "rag", pos)
           [] OTHER -> HelperAfterRag(in, pos)

\* Mutant: the chunk frame carries the previous item's content.
HelperStreamStale(in, src, pos) ==
    CASE PlainStep(src, pos).kind = "item" ->
            StepItem(Frame("chunk", ChunkText(pos)), "chunk", pos + 1)
      [] PlainStep(src, pos).kind = "stop" -> HelperMeta(in, pos)
      [] OTHER -> HelperExcept(src.cls, src.msg, pos)

\* async for chunk_content in response_generator.
HelperStream(in, src, pos) ==
    CASE PlainStep(src, pos).kind = "item" ->
            StepItem(Frame("chunk", ChunkText(PlainStep(src, pos).item)), "chunk", pos + 1)
      [] PlainStep(src, pos).kind = "stop" -> HelperMeta(in, pos)
      [] OTHER -> HelperExcept(src.cls, src.msg, pos)

\* One __anext__() of the helper suspended at hpc.
HelperStep(hpc, pos, in, src) ==
    CASE hpc = "created" ->
            IF routes_llmcore_instance = NoInstance
            THEN StepItem(Frame("error", "LLM service not available."), "unavail_error", pos)
            ELSE HelperStream(in, src, pos)
      [] hpc = "unavail_error" -> StepItem(Frame("end", ""), "unavail_end", pos)
      [] hpc = "unavail_end" -> StepStop(pos)
      [] hpc = "chunk" -> HelperStream(in, src, pos)
      [] hpc = "rag" -> HelperAfterRag(in, pos)
      [] hpc = "resp_id" -> HelperAfterId(in, pos)
      [] hpc = "usage" -> HelperFinally(pos)
      [] hpc = "error" -> HelperFinally(pos)
      [] OTHER -> StepStop(pos)

\* The helper is garbage-collected while suspended: GeneratorExit is thrown in
\* at its yield. Inside the try statement the finally block answers with
\* `yield end`, which is discarded ("async generator ignored GeneratorExit").
HelperIgnoresExit(hpc) == hpc \in {"chunk", "rag", "resp_id", "usage", "error"}

\* A call of LLMCore method m, with the handle's instance at that moment.
CoreCall(m) == [method |-> m, instance |-> llmcore_instance]

\* The LLMCore methods behind the two lookups of lines 174-175: get_session
\* in _get_last_assistant_message_id (guarded by the route module's name),
\* get_last_interaction_context_info in get_context_usage_info (guarded by
\* the app module's global).
LookupCoreCalls(in) ==
    (IF routes_llmcore_instance # NoInstance /\ in.session
     THEN {CoreCall("get_session")} ELSE {}) \cup
    (IF llmcore_instance # NoInstance /\ in.session
     THEN {CoreCall("get_last_interaction_context_info")} ELSE {})

\* The LLMCore methods the post-stream block invokes up to its first yield.
MetaCoreCalls(in) ==
    IF ~in.session THEN {}
    ELSE {CoreCall("get_last_interaction_context_info")} \cup
         (IF in.ctx \in {"none", "no_rag"} THEN LookupCoreCalls(in) ELSE {})

\* The LLMCore methods one __anext__() of the helper suspended at hpc invokes.
HelperCoreCalls(hpc, pos, in, src) ==
    CASE (hpc = "created" /\ routes_llmcore_instance # NoInstance) \/ hpc = "chunk" ->
            {CoreCall("chat")} \cup
            (IF PlainStep(src, pos).kind = "stop" THEN MetaCoreCalls(in) ELSE {})
      [] hpc = "rag" -> LookupCoreCalls(in)
      [] OTHER -> {}

\* The LLMCore methods one step of the bridged async generator invokes.
AgenCoreCalls(gr, src) ==
    IF gr.kind = "chat" THEN HelperCoreCalls(gr.hpc, gr.agPos, gr.chat, src) ELSE {}

(***************************************************************************)
(* run_async_generator_synchronously (routes.py)                           *)
(***************************************************************************)
AbsentGen ==
    [pc |-> "absent", thread |-> 0, loop |-> NoLoop, kind |-> "none",
     chat |-> NoChat,
     agState |-> "none", agPos |-> 0, hpc |-> "none", agLoop |-> NoLoop,
     agFinal |-> "no", produced |-> <<>>, emitted |-> <<>>,
     exit |-> "none", error |-> NoOutcome, abandoned |-> FALSE]

\* One async_gen.__anext__() driven to completion; src is what the underlying
\* source does if this step asks it for an item.
AgenStep(gr, src) ==
    IF gr.kind = "chat" THEN HelperStep(gr.hpc, gr.agPos, gr.chat, src)
    ELSE PlainStep(src, gr.agPos)

\* Mutant: the item is kept in a buffer instead of being handed over.
BridgeYieldBuffered(emitted, item) == emitted

\* Mutant: the item is handed over twice (once more when the frame resumes).
BridgeYieldTwice(emitted, item) == Append(Append(emitted, item), item)

\* `yield item`: the consumer receives the item.
BridgeYield(emitted, item) == Append(emitted, item)

\* The finally block: drive the shutdown coroutine (errors are logged), close
\* the loop, unset it if it is the thread's current loop. error is the
\* exception the block itself raises, "" if none.
GenTeardown(lps, cur, gs, l, t, td) ==
    LET ran == RunUntilCompleteError(l, t) = ""
        closed == IF ran /\ td = "ok" THEN RegisteredAsyncGens(gs, l) ELSE {}
    IN [loops |-> [lps EXCEPT ![l] =
                      [@ EXCEPT !.drivers = IF ran THEN @ \cup {t} ELSE @,
                                !.state = "closed",
                                !.closers = @ \cup {t}]],
        gens |-> CloseAsyncGens(gs, closed, "bridge_loop"),
        logged |-> IF ran /\ td = "ok" THEN logged
                   ELSE logged \cup {"Error during shutdown of tasks/asyncgens in sync generator's loop"},
        current |-> IF cur[t] = l THEN [cur EXCEPT ![t] = NoLoop] ELSE cur,
        error |-> IF cur[t] = NoLoop THEN "There is no current event loop in thread" ELSE ""]

\* How the generator frame ends: the way the try body was left, unless the
\* finally block itself raised.
GenExit(exit, err, teardownError) ==
    IF teardownError # ""
    THEN [exit |-> "raised", error |-> Raise("RuntimeError", teardownError)]
    ELSE [exit |-> exit, error |-> err]

\* The generator frame leaves its try body and runs the finally block.
GenFinish(g, gr, lps, cur, exit, err, td) ==
    LET r == GenTeardown(lps, cur, [gens EXCEPT ![g] = gr], gr.loop, gr.thread, td)
        x == GenExit(exit, err, r.error)
    IN /\ gens' = [r.gens EXCEPT ![g].pc = "done", ![g].exit = x.exit, ![g].error = x.error]
       /\ loops' = r.loops
       /\ current' = r.current
       /\ logged' = r.logged

\* A route handler on thread t calls run_async_generator_synchronously: a
\* generator object is returned, none of its body has run.
GenCreate(t, g) ==
    /\ gens[g].pc = "absent"
    /\ wrap[t].pc = "idle"
    /\ gens' = [gens EXCEPT ![g] = [AbsentGen EXCEPT !.pc = "created", !.thread = t,
                                                     !.kind = "plain"]]
    /\ UNCHANGED <<nextLoop, loops, running, current, wrap, logged,
                   routes_llmcore_instance, routes_llmcore_init_error, handleVars, routeVars, requestVars>>

\* api_chat_route, streaming branch:
\* run_async_generator_synchronously(_stream_chat_responses_route_helper, params).
ChatCreate(t, g, in) ==
    /\ gens[g].pc = "absent"
    /\ wrap[t].pc = "idle"
    /\ gens' = [gens EXCEPT ![g] = [AbsentGen EXCEPT !.pc = "created", !.thread = t,
                                                     !.kind = "chat", !.chat = in,
                                                     !.hpc = "created"]]
    /\ UNCHANGED <<nextLoop, loops, running, current, wrap, logged,
                   routes_llmcore_instance, routes_llmcore_init_error, handleVars, routeVars, requestVars>>

\* The consumer calls next() on the generator object: the body runs up to the
\* next `yield item`, or to its end through the finally block.
GenNext(g, src, td) ==
    LET gr == gens[g]
        t == gr.thread
        first == gr.pc = "created"
        l == IF first THEN nextLoop ELSE gr.loop
    IN
    /\ gr.pc \in {"created", "suspended"}
    /\ wrap[t].pc = "idle"
    /\ first => nextLoop <= MaxLoops
    /\ src.kind = "item" => gr.agPos < MaxItems
    /\ nextLoop' = IF first THEN nextLoop + 1 ELSE nextLoop
    /\ LET lps == IF first THEN [loops EXCEPT ![l] = NewLoop(t, "generator")] ELSE loops
           cur == IF first THEN [current EXCEPT ![t] = l] ELSE current
           \* async_gen.__anext__() is evaluated before run_until_complete is
           \* entered: the first call finds the hooks of the loop that is
           \* running on the thread at that moment, if any.
           gr0 == [gr EXCEPT !.loop = l,
                             !.agLoop = IF gr.agState = "none" THEN running[t] ELSE @,
                             !.agState = IF @ = "none" THEN "created" ELSE @]
           err == RunUntilCompleteError(l, t)
           res == AgenStep(gr, src)
           driven == [lps EXCEPT ![l].drivers = @ \cup {t}]
       IN
       IF err # ""
       THEN GenFinish(g, gr0, lps, cur, "raised", Raise("RuntimeError", err), td)
       ELSE IF res.kind = "item"
       THEN /\ gens' = [gens EXCEPT ![g] =
                           [gr0 EXCEPT !.pc = "suspended", !.agState = "suspended",
                                       !.agPos = res.agPos, !.hpc = res.hpc,
                                       !.produced = Append(@, res.item),
                                       !.emitted = BridgeYield(@, res.item)]]
            /\ loops' = driven
            /\ current' = cur
            /\ UNCHANGED logged
       ELSE IF res.kind = "stop"
       THEN GenFinish(g, [gr0 EXCEPT !.agState = "finished", !.hpc = res.hpc],
                      driven, cur, "exhausted", NoOutcome, td)
       ELSE GenFinish(g, [gr0 EXCEPT !.agState = "raised", !.hpc = res.hpc],
                      driven, cur, "raised", res.err, td)
    /\ coreCalls' = coreCalls \cup
          (IF RunUntilCompleteError(l, t) = "" THEN AgenCoreCalls(gr, src) ELSE {})
    /\ UNCHANGED <<running, wrap, routes_llmcore_instance, routes_llmcore_init_error, handleVars, resp, requestVars>>

\* The consumer abandons the generator object (close()): GeneratorExit is
\* raised at `yield item` and the finally block runs. A generator that was
\* never started just ends.
GenClose(g, td) ==
    LET gr == gens[g] IN
    /\ gr.pc \in {"created", "suspended"}
    /\ wrap[gr.thread].pc = "idle"
    /\ IF gr.pc = "created"
       THEN /\ gens' = [gens EXCEPT ![g].pc = "done", ![g].exit = "closed",
                                    ![g].abandoned = TRUE]
            /\ UNCHANGED <<loops, current, logged>>
       ELSE GenFinish(g, [gr EXCEPT !.abandoned = TRUE], loops, current,
                      "closed", NoOutcome, td)
    /\ UNCHANGED <<nextLoop, running, wrap, routes_llmcore_instance, routes_llmcore_init_error, handleVars, routeVars, requestVars>>

\* The generator frame is gone and the async generator it left suspended is
\* garbage-collected: its pending finally blocks run now, outside any loop.
AgenCollect(g) ==
    /\ gens[g].pc = "done"
    /\ gens[g].agState = "suspended"
    /\ gens' = [gens EXCEPT ![g].agState = "closed",
                            ![g].agFinal = IF gens[g].kind = "chat" /\ HelperIgnoresExit(gens[g].hpc)
                                           THEN "gc_ignored_exit" ELSE "gc"]
    /\ UNCHANGED <<nextLoop, loops, running, current, wrap, logged,
                   routes_llmcore_instance, routes_llmcore_init_error, handleVars, routeVars, requestVars>>

(***************************************************************************)
(* Route handlers (routes/chat_routes.py, routes/ingest_routes.py)         *)
(***************************************************************************)
NoPayload == [llmcore_status |-> "", llmcore_error |-> ""]

NoResponse ==
    [route |-> "none", status |-> 0, error |-> "", frames |-> <<>>, stream |-> "none",
     payload |-> NoPayload]

\* jsonify({"error": msg}), status
JsonError(route, status, msg) ==
    [route |-> route, status |-> status, error |-> msg, frames |-> <<>>, stream |-> "none",
     payload |-> NoPayload]

\* jsonify(payload) with the default status
JsonOk(route) ==
    [route |-> route, status |-> 200, error |-> "", frames |-> <<>>, stream |-> "none",
     payload |-> NoPayload]

\* Response(stream_with_context(generator), ...): frames holds the frames of
\* a generator defined inside the handler, stream names a bridged generator.
StreamResponse(route, status, frames, stream) ==
    [route |-> route, status |-> status, error |-> "", frames |-> frames, stream |-> stream,
     payload |-> NoPayload]

\* The handlers' `if not llmcore_instance:` reads the name the route module
\* imported.
RouteUnavailableNever == FALSE

RouteUnavailable == routes_llmcore_instance = NoInstance

\* The JSON payloads of POST /api/chat that the handler tells apart, with
\* what the core library does for the request.
ChatRequest(m, st, mg, rs, ch, in) ==
    [message |-> m, stream |-> st, managed |-> mg, resolve |-> rs, chat |-> ch, in |-> in]

ChatRequests ==
    {ChatRequest(FALSE, TRUE, FALSE, "ok", "ok", NoChat),
     ChatRequest(TRUE, TRUE, TRUE, "raise", "ok", NoChat),
     ChatRequest(TRUE, TRUE, FALSE, "ok", "ok", NoChat),
     ChatRequest(TRUE, TRUE, TRUE, "ok", "ok",
                 [session |-> TRUE, ctx |-> "rag", lastId |-> "found", usage |-> "found"]),
     ChatRequest(TRUE, FALSE, TRUE, "ok", "ok",
                 [session |-> TRUE, ctx |-> "rag", lastId |-> "found", usage |-> "found"]),
     ChatRequest(TRUE, FALSE, FALSE, "ok", "LLMCoreError", NoChat),
     ChatRequest(TRUE, FALSE, FALSE, "ok", "ValueError", NoChat)}

\* api_chat_route. The async_to_sync_in_flask calls inside the handler each
\* create a loop and close it again before they return (WrapperBegin ..
\* WrapperEnd); of them the handler keeps the result, and the thread's current
\* loop is left unset.
ApiChatRoute(t, g, req) ==
    /\ loadPhase = "serving"
    /\ wrap[t].pc = "idle"
    /\ running[t] = NoLoop
    /\ IF RouteUnavailable
       THEN /\ resp' = [resp EXCEPT ![t] = JsonError("api_chat", 503, "LLM service not available.")]
            /\ UNCHANGED <<coreCalls, gens, current>>
       ELSE IF ~req.message
       THEN /\ resp' = [resp EXCEPT ![t] = JsonError("api_chat", 400, "No message provided.")]
            /\ UNCHANGED <<coreCalls, gens, current>>
       ELSE IF req.managed /\ req.resolve = "raise"
       THEN /\ resp' = [resp EXCEPT ![t] =
                           JsonError("api_chat", 500, "Failed to process context items: boom")]
            /\ current' = [current EXCEPT ![t] = NoLoop]
            /\ UNCHANGED <<coreCalls, gens>>
       ELSE IF req.stream
       THEN /\ gens[g].pc = "absent"
            /\ gens' = [gens EXCEPT ![g] = [AbsentGen EXCEPT !.pc = "created", !.thread = t,
                                                             !.kind = "chat", !.chat = req.in,
                                                             !.hpc = "created"]]
            /\ resp' = [resp EXCEPT ![t] = StreamResponse("api_chat", 200, <<>>, "chat")]
            /\ current' = IF req.managed THEN [current EXCEPT ![t] = NoLoop] ELSE current
            /\ UNCHANGED coreCalls
       ELSE /\ coreCalls' = coreCalls \cup {CoreCall("chat")} \cup
                              (IF req.chat = "ok" THEN LookupCoreCalls(req.in) ELSE {})
            /\ resp' = [resp EXCEPT ![t] =
                           CASE req.chat = "ok" -> JsonOk("api_chat")
                             [] req.chat \in LLMCoreErrors -> JsonError("api_chat", 500, "boom")
                             [] OTHER -> JsonError("api_chat", 500,
                                            "An unexpected server error occurred during chat.")]
            /\ current' = [current EXCEPT ![t] = NoLoop]
            /\ UNCHANGED gens
    /\ UNCHANGED <<nextLoop, loops, running, wrap, logged, routes_llmcore_instance, routes_llmcore_init_error, handleVars, requestVars>>

ErrorEndFrames(msg) == <<Frame("error", msg), Frame("end", "")>>

\* The multipart forms of POST /api/ingest that the handler tells apart, with
\* whether apykatu is installed and its configuration can be prepared.
IngestRequest(a, p, c, ty, f) ==
    [apykatu |-> a, params |-> p, cfg |-> c, type |-> ty, files |-> f]

IngestRequests ==
    {IngestRequest(FALSE, TRUE, TRUE, "file", TRUE),
     IngestRequest(TRUE, FALSE, TRUE, "file", TRUE),
     IngestRequest(TRUE, TRUE, FALSE, "file", TRUE),
     IngestRequest(TRUE, TRUE, TRUE, "file", FALSE),
     IngestRequest(TRUE, TRUE, TRUE, "file", TRUE),
     IngestRequest(TRUE, TRUE, TRUE, "dir_zip", TRUE),
     IngestRequest(TRUE, TRUE, TRUE, "git", TRUE),
     IngestRequest(TRUE, TRUE, TRUE, "other", TRUE)}

\* ingest_data_route: every outcome is an event stream; the early exits
\* stream an error frame and the end frame from a generator of their own.
IngestDataRoute(t, req) ==
    /\ loadPhase = "serving"
    /\ wrap[t].pc = "idle"
    /\ resp' = [resp EXCEPT ![t] =
          IF RouteUnavailable
          THEN StreamResponse("ingest", 200, ErrorEndFrames("LLM service not available."), "none")
          ELSE IF ~req.apykatu
          THEN StreamResponse("ingest", 200,
                              ErrorEndFrames("Apykatu ingestion service not available."), "none")
          ELSE IF ~req.params
          THEN StreamResponse("ingest", 400,
                              ErrorEndFrames("Missing ingest_type or collection_name."), "none")
          ELSE IF ~req.cfg
          THEN StreamResponse("ingest", 500,
                              ErrorEndFrames("Failed to prepare Apykatu configuration."), "none")
          ELSE IF req.type = "file"
          THEN IF ~req.files
               THEN StreamResponse("ingest", 400,
                                   ErrorEndFrames("No files provided for file ingestion."), "none")
               ELSE StreamResponse("ingest", 200, <<>>, "stream_file_ingestion_progress")
          ELSE IF req.type \in {"dir_zip", "git"}
          THEN StreamResponse("ingest", 200, <<>>, "stream_other_ingestion_types_sse_async_gen")
          ELSE StreamResponse("ingest", 400,
                              ErrorEndFrames("Unsupported ingestion type: other."), "none")]
    /\ UNCHANGED <<coreCalls, asyncVars, routes_llmcore_instance, routes_llmcore_init_error, handleVars, requestVars>>

\* _stream_chat_responses_route_helper handed to the bridge by a caller other
\* than api_chat_route.
HelperDirect(t, g, in) ==
    /\ loadPhase = "serving"
    /\ ChatCreate(t, g, in)

\* api_status: llmcore_status and llmcore_error of the payload, from the names
\* the route module imported and whether the instance has a config.
LlmcoreStatus(inst, err, cfg) ==
    IF err # NoError
    THEN [llmcore_status |-> "error", llmcore_error |-> err]
    ELSE IF inst = NoInstance
    THEN [llmcore_status |-> "initializing",
          llmcore_error |-> "LLMCore instance is None (still initializing or failed silently)."]
    ELSE IF cfg
    THEN [llmcore_status |-> "operational", llmcore_error |-> NoError]
    ELSE [llmcore_status |-> "error",
          llmcore_error |-> "LLMCore instance exists but its config is unavailable."]

\* GET /api/status. The handler runs under async_to_sync_in_flask, which
\* leaves the thread's current loop unset.
ApiStatus(t, cfg) ==
    /\ loadPhase = "serving"
    /\ wrap[t].pc = "idle"
    /\ running[t] = NoLoop
    /\ resp' = [resp EXCEPT ![t] =
          [JsonOk("api_status") EXCEPT
              !.payload = LlmcoreStatus(routes_llmcore_instance, routes_llmcore_init_error, cfg)]]
    /\ current' = [current EXCEPT ![t] = NoLoop]
    /\ UNCHANGED <<coreCalls, nextLoop, loops, running, wrap, gens, logged,
                   routes_llmcore_instance, routes_llmcore_init_error, handleVars, requestVars>>

(***************************************************************************)
(* stream_file_ingestion_progress (routes/ingest_routes.py)                *)
(***************************************************************************)
\* What happens to one uploaded file: the upload object is falsy or has no
\* filename; reading or sanitising its filename raises; after file_start,
\* saving, Apykatu or add_documents_to_vector_store raises; Apykatu reports
\* errors; chunks are added; no chunk has an embedding; no chunk is produced.
FileOutcomes ==
    {"invalid", "filename_raises", "save_raises", "apykatu_raises", "apykatu_errors",
     "added", "add_raises", "no_embeddings", "no_chunks"}

\* file_start is yielded for the file.
FileStarts(o) == o \notin {"invalid", "filename_raises"}

\* The status of the file's file_end frame.
FileStatus(o) ==
    CASE o = "added" -> "success"
      [] o = "no_embeddings" -> "warning_no_chunks_with_embeddings"
      [] o = "no_chunks" -> "warning_no_chunks_produced"
      [] OTHER -> "error"

\* Mutant: the two warning outcomes are not counted as errors.
FileCountsWarningsUncounted(o, ok, errors) ==
    CASE o = "added" -> <<ok + 1, errors>>
      [] o \in {"no_embeddings", "no_chunks"} -> <<ok, errors>>
      [] OTHER -> <<ok, errors + 1>>

\* overall_files_processed_successfully and overall_files_with_errors after
\* the file.
FileCounts(o, ok, errors) ==
    IF o = "added" THEN <<ok + 1, errors>> ELSE <<ok, errors + 1>>

\* summary_status
SummaryStatus(total, ok, errors) ==
    IF total > 0
    THEN IF errors = 0 THEN "success"
         ELSE IF ok > 0 THEN "completed_with_some_errors"
         ELSE "completed_with_all_errors"
    ELSE "no_files_processed"

NoSummary == [total |-> 0, ok |-> 0, errors |-> 0, status |-> ""]

\* summary_payload: total_files_submitted, files_processed_successfully,
\* files_with_errors, status.
Summary(total, ok, errors) ==
    [total |-> total, ok |-> ok, errors |-> errors, status |-> SummaryStatus(total, ok, errors)]

IngestFrame(type, idx, status, summary) ==
    [type |-> type, file_index |-> idx, status |-> status, summary |-> summary]

AbsentIngest ==
    [pc |-> "absent", files |-> <<>>, apykatu |-> TRUE, i |-> 0, ok |-> 0, errors |-> 0,
     frames |-> <<>>]

IngestYield(st, f, pc) == [st EXCEPT !.frames = Append(@, f), !.pc = pc]

\* Mutant: a file that ends with an error ends the loop.
IngestFileEndStops(st) ==
    LET o == st.files[st.i + 1]
        c == FileCounts(o, st.ok, st.errors)
    IN IngestYield([st EXCEPT !.ok = c[1], !.errors = c[2],
                              !.i = IF FileStatus(o) = "error" THEN Len(st.files) ELSE @ + 1],
                   IngestFrame("file_end", st.i, FileStatus(o), NoSummary), "file_end")

\* The rest of the loop body for file i: the counters are updated and the
\* file's file_end frame is yielded, from the try body or the except clause.
IngestFileEnd(st) ==
    LET o == st.files[st.i + 1]
        c == FileCounts(o, st.ok, st.errors)
    IN IngestYield([st EXCEPT !.ok = c[1], !.errors = c[2], !.i = @ + 1],
                   IngestFrame("file_end", st.i, FileStatus(o), NoSummary), "file_end")

\* The head of the loop: the next file, or the summary after the last one.
IngestLoop(st) ==
    IF st.i = Len(st.files)
    THEN IngestYield(st, IngestFrame("ingestion_complete", st.i, "",
                                     Summary(Len(st.files), st.ok, st.errors)), "complete")
    ELSE IF FileStarts(st.files[st.i + 1])
    THEN IngestYield(st, IngestFrame("file_start", st.i, "", NoSummary), "file_start")
    ELSE IngestFileEnd(st)

\* One __anext__() of the generator suspended at st.pc.
IngestStep(st) ==
    CASE st.pc = "created" ->
            IF RouteUnavailable \/ ~st.apykatu
            THEN IngestYield(st, IngestFrame("error", 0, "", NoSummary), "unavail_error")
            ELSE IngestLoop(st)
      [] st.pc = "unavail_error" -> IngestYield(st, IngestFrame("end", 0, "", NoSummary), "end")
      [] st.pc = "file_start" -> IngestFileEnd(st)
      [] st.pc = "file_end" -> IngestLoop(st)
      [] st.pc = "complete" -> IngestYield(st, IngestFrame("end", 0, "", NoSummary), "end")
      [] OTHER -> [st EXCEPT !.pc = "finished"]

\* stream_file_ingestion_progress(uploaded_files, ...) is called: a generator
\* object, none of its body has run.
IngestCreate(files, apykatu) ==
    /\ loadPhase = "serving"
    /\ ingest.pc = "absent"
    /\ ingest' = [AbsentIngest EXCEPT !.pc = "created", !.files = files, !.apykatu = apykatu]
    /\ UNCHANGED <<handleVars, bridgeVars, routeVars, current_llm_session_id>>

\* The consumer asks for the next frame.
IngestNext ==
    /\ ingest.pc \in {"created", "unavail_error", "file_start", "file_end", "complete", "end"}
    /\ ingest' = IngestStep(ingest)
    /\ UNCHANGED <<handleVars, bridgeVars, routeVars, current_llm_session_id>>

\* The consumer abandons the stream: GeneratorExit at the yield is caught by
\* no except clause of the generator.
IngestClose ==
    /\ ingest.pc \in {"unavail_error", "file_start", "file_end", "complete", "end"}
    /\ ingest' = [ingest EXCEPT !.pc = "closed"]
    /\ UNCHANGED <<handleVars, bridgeVars, routeVars, current_llm_session_id>>

(***************************************************************************)
(* Session routes (routes/session_routes.py)                               *)
(***************************************************************************)
NoSession == ""        \* current_llm_session_id is None or missing

SessionIds == {"s1", "s2", "s3"}

LoadRoute(sid) == "GET /api/sessions/" \o sid \o "/load"

DeleteRoute(sid) == "DELETE /api/sessions/" \o sid

\* What llmcore_instance.delete_session does: True, False, or it raises.
DeleteOutcomes == {"deleted", "not_found", "raise_core", "raise_other"}

\* load_session_route, up to set_current_web_session_id(session_obj.id).
LoadSessionRoute(t, sid, found) ==
    /\ loadPhase = "serving"
    /\ wrap[t].pc = "idle"
    /\ running[t] = NoLoop
    /\ IF RouteUnavailable
       THEN /\ resp' = [resp EXCEPT ![t] = JsonError(LoadRoute(sid), 503, "LLM service not available.")]
            /\ UNCHANGED <<coreCalls, current_llm_session_id>>
       ELSE /\ coreCalls' = coreCalls \cup {CoreCall("get_session")}
            /\ IF found
               THEN /\ current_llm_session_id' = sid
                    /\ resp' = [resp EXCEPT ![t] = JsonOk(LoadRoute(sid))]
               ELSE /\ resp' = [resp EXCEPT ![t] =
                                   JsonError(LoadRoute(sid), 404, "Session not found by LLMCore.")]
                    /\ UNCHANGED current_llm_session_id
    /\ current' = [current EXCEPT ![t] = NoLoop]
    /\ UNCHANGED <<nextLoop, loops, running, wrap, gens, logged, routes_llmcore_instance,
                   routes_llmcore_init_error, handleVars, ingest>>

\* Mutant: any successful deletion clears the current session id.
CurrentAfterDeleteAlways(cur, sid, out) ==
    IF out = "deleted" THEN NoSession ELSE cur

\* flask_session['current_llm_session_id'] after delete_session_route.
CurrentAfterDelete(cur, sid, out) ==
    IF out = "deleted" /\ cur = sid THEN NoSession ELSE cur

\* delete_session_route
DeleteSessionRoute(t, sid, out) ==
    /\ loadPhase = "serving"
    /\ wrap[t].pc = "idle"
    /\ running[t] = NoLoop
    /\ IF RouteUnavailable
       THEN /\ resp' = [resp EXCEPT ![t] =
                           JsonError(DeleteRoute(sid), 503, "LLM service not available.")]
            /\ UNCHANGED <<coreCalls, current_llm_session_id>>
       ELSE /\ coreCalls' = coreCalls \cup {CoreCall("delete_session")}
            /\ current_llm_session_id' = CurrentAfterDelete(current_llm_session_id, sid, out)
            /\ resp' = [resp EXCEPT ![t] =
                  CASE out = "deleted" -> JsonOk(DeleteRoute(sid))
                    [] out = "not_found" ->
                         JsonError(DeleteRoute(sid), 404,
                                   "Session not found or could not be deleted by LLMCore.")
                    [] out = "raise_core" ->
                         JsonError(DeleteRoute(sid), 500, "Failed to delete session: boom")
                    [] OTHER ->
                         JsonError(DeleteRoute(sid), 500,
                                   "An unexpected server error occurred while deleting the session.")]
    /\ current' = [current EXCEPT ![t] = NoLoop]
    /\ UNCHANGED <<nextLoop, loops, running, wrap, gens, logged, routes_llmcore_instance,
                   routes_llmcore_init_error, handleVars, ingest>>

(***************************************************************************)
(* Specifications                                                          *)
(***************************************************************************)
InitAsync ==
    /\ ingest = AbsentIngest
    /\ current_llm_session_id = NoSession
    /\ nextLoop = 1
    /\ loops = [l \in Loops |-> AbsentLoop]
    /\ running = [t \in Threads |-> NoLoop]
    /\ current = [t \in Threads |-> NoLoop]
    /\ wrap = [t \in Threads |-> IdleCall]
    /\ gens = [g \in Gens |-> AbsentGen]
    /\ logged = {}
    /\ resp = [t \in Threads |-> NoResponse]
    /\ coreCalls = {}

\* The process is serving requests with a handle in state <<inst, err>>.
InitServing(inst, err) ==
    /\ llmcore_instance = inst
    /\ llmcore_init_error = err
    /\ createCalls = 1
    /\ loadPhase = "serving"
    /\ runAsMain = FALSE
    /\ initPc = [c \in Callers |-> "idle"]
    /\ initCall = [c \in Callers |-> 0]
    /\ initUninit = [c \in Callers |-> FALSE]
    /\ initObserved = [c \in Callers |-> <<NoInstance, NoError>>]

\* The bridge under concurrent requests: every thread makes single-shot calls
\* and consumes streams; a foreign owner may run its own loop on a thread.
Init ==
    /\ InitServing(1, NoError)
    /\ routes_llmcore_instance = 1
    /\ routes_llmcore_init_error = NoError
    /\ InitAsync

Next ==
    \/ \E t \in Threads, coro \in CoroOutcomes : WrapperBegin(t, coro)
    \/ \E t \in Threads : WrapperRun(t)
    \/ \E t \in Threads, td \in ShutdownOutcomes : WrapperEnd(t, td)
    \/ \E t \in Threads, g \in Gens : GenCreate(t, g)
    \/ \E g \in Gens, src \in SourceOutcomes({"ValueError"}), td \in ShutdownOutcomes :
          GenNext(g, src, td)
    \/ \E g \in Gens, td \in ShutdownOutcomes : GenClose(g, td)
    \/ \E g \in Gens : AgenCollect(g)
    \/ \E t \in Threads : ForeignLoopStart(t)
    \/ \E t \in Threads : ForeignLoopStop(t)

Spec == Init /\ [][Next]_vars

\* One chat stream: the request's inputs and what the core library will do.
ChatInputs ==
    {[session |-> FALSE, ctx |-> "none", lastId |-> "none", usage |-> "none"]} \cup
    {[session |-> TRUE, ctx |-> c, lastId |-> i, usage |-> u] :
        c \in {"raise_core", "raise_other", "none", "no_rag", "rag"},
        i \in {"raise", "none", "found"},
        u \in {"raise", "none", "found"}}

InitChat ==
    /\ \E inst \in {NoInstance, 1} :
          InitServing(inst, IF inst = NoInstance THEN InitErrorMsg("ConfigError", "boom")
                            ELSE NoError)
    /\ routes_llmcore_instance \in {NoInstance, llmcore_instance}
    /\ routes_llmcore_init_error =
          IF routes_llmcore_instance = llmcore_instance THEN llmcore_init_error ELSE NoError
    /\ InitAsync

NextChat ==
    \/ \E in \in ChatInputs : ChatCreate(1, 1, in)
    \/ \E src \in SourceOutcomes({"LLMCoreError", "ProviderError", "ValueError"}),
          td \in ShutdownOutcomes : GenNext(1, src, td)
    \/ \E td \in ShutdownOutcomes : GenClose(1, td)
    \/ AgenCollect(1)

SpecChat == InitChat /\ [][NextChat]_vars

InitHandle ==
    /\ llmcore_instance = NoInstance
    /\ llmcore_init_error = NoError
    /\ createCalls = 0
    /\ loadPhase = "module_load"
    /\ runAsMain \in BOOLEAN
    /\ initPc = [c \in Callers |-> "idle"]
    /\ initCall = [c \in Callers |-> 0]
    /\ initUninit = [c \in Callers |-> FALSE]
    /\ initObserved = [c \in Callers |-> <<NoInstance, NoError>>]
    /\ routes_llmcore_instance = NoInstance
    /\ routes_llmcore_init_error = NoError
    /\ InitAsync

NextHandle ==
    \/ \E r \in RunOutcomes : ModuleLoadGuard(r)
    \/ RegisterBlueprints
    \/ \E r \in RunOutcomes : DirectRunGuard(r)
    \/ \E c \in Callers : InitEnter(c)
    \/ \E c \in Callers, out \in CreateOutcomes : InitResume(c, out)

SpecHandle == InitHandle /\ [][NextHandle]_vars

\* One chat stream whose chat generator never raises: it yields chunks and is
\* exhausted; only the post-stream lookups can fail.
NextChatExhausted ==
    \/ \E in \in ChatInputs : ChatCreate(1, 1, in)
    \/ \E src \in SourceOutcomes({}), td \in ShutdownOutcomes : GenNext(1, src, td)
    \/ \E td \in ShutdownOutcomes : GenClose(1, td)
    \/ AgenCollect(1)

SpecChatExhausted == InitChat /\ [][NextChatExhausted]_vars

\* The application from import to serving: the handle's initialization, then
\* requests to the chat and ingestion endpoints and the chat stream of one
\* request; one external caller may run initialize_llmcore_async again.
NextRoutes ==
    \/ \E r \in RunOutcomes : ModuleLoadGuard(r)
    \/ RegisterBlueprints
    \/ \E r \in RunOutcomes : DirectRunGuard(r)
    \/ InitEnter(1)
    \/ \E out \in CreateOutcomes : InitResume(1, out)
    \/ \E req \in ChatRequests : ApiChatRoute(1, 1, req)
    \/ \E req \in IngestRequests : IngestDataRoute(NumThreads, req)
    \/ HelperDirect(1, 1, NoChat)
    \/ \E src \in SourceOutcomes({"LLMCoreError"}), td \in ShutdownOutcomes : GenNext(1, src, td)
    \/ \E td \in ShutdownOutcomes : GenClose(1, td)
    \/ AgenCollect(1)

SpecRoutes == InitHandle /\ [][NextRoutes]_vars

\* The application from import to serving, with requests to the status
\* endpoint; external callers may run initialize_llmcore_async again.
NextStatus ==
    \/ \E r \in RunOutcomes : ModuleLoadGuard(r)
    \/ RegisterBlueprints
    \/ \E r \in RunOutcomes : DirectRunGuard(r)
    \/ \E c \in Callers : InitEnter(c)
    \/ \E c \in Callers, out \in CreateOutcomes : InitResume(c, out)
    \/ \E t \in Threads, cfg \in BOOLEAN : ApiStatus(t, cfg)

SpecStatus == InitHandle /\ [][NextStatus]_vars

\* One file-ingestion stream over up to MaxFiles uploaded files.
UploadedFiles == UNION {[1..n -> FileOutcomes] : n \in 0..MaxFiles}

NextIngest ==
    \/ \E files \in UploadedFiles, apykatu \in BOOLEAN : IngestCreate(files, apykatu)
    \/ IngestNext
    \/ IngestClose

SpecIngest == InitChat /\ [][NextIngest]_vars

\* One client loading and deleting sessions.
NextSession ==
    \/ \E sid \in SessionIds, found \in BOOLEAN : LoadSessionRoute(NumThreads, sid, found)
    \/ \E sid \in SessionIds, out \in DeleteOutcomes : DeleteSessionRoute(1, sid, out)

SpecSession == InitChat /\ [][NextSession]_vars

(***************************************************************************)
(* Claims about the chat stream (SpecChat)                                 *)
(***************************************************************************)
CountType(fs, ty) == Cardinality({i \in 1..Len(fs) : fs[i].type = ty})

ChatGens == {g \in Gens : gens[g].kind = "chat"}

\* C1: whatever the chat generator does, the frames the helper yields contain
\* at most one error frame and at most one end frame, nothing follows end,
\* only end follows error, and once the helper has been drained the sequence
\* ends with the end frame.
C1_FrameSequenceShape ==
    \A g \in ChatGens :
        LET fs == gens[g].produced IN
        /\ CountType(fs, "end") <= 1
        /\ CountType(fs, "error") <= 1
        /\ \A i \in 1..Len(fs) : fs[i].type = "end" => i = Len(fs)
        /\ \A i \in 1..Len(fs) :
              (fs[i].type = "error" /\ i < Len(fs)) => (i = Len(fs) - 1 /\ fs[i + 1].type = "end")
        /\ gens[g].agState = "finished" =>
              /\ Len(fs) >= 1
              /\ fs[Len(fs)].type = "end"
              /\ CountType(fs, "end") = 1

\* C1 witness: a drained stream whose generator raised after a chunk.
C1_Witness ==
    \E g \in ChatGens :
        /\ gens[g].agState = "finished"
        /\ Len(gens[g].produced) >= 3
        /\ gens[g].produced[1].type = "chunk"
        /\ gens[g].produced[Len(gens[g].produced) - 1].type = "error"

\* C7: a chat stream that has delivered frames and is over delivered an end
\* frame last, also when the consumer abandoned it.
C7_LastFrameIsEnd ==
    \A g \in ChatGens :
        (gens[g].pc = "done" /\ gens[g].emitted # <<>>)
            => gens[g].emitted[Len(gens[g].emitted)].type = "end"

(***************************************************************************)
(* Claims about the bridge (Spec)                                          *)
(***************************************************************************)
PlainGens == {g \in Gens : gens[g].kind = "plain"}

Iota(n) == [i \in 1..n |-> i]

\* C4: a finished call whose coroutine was driven and raised hands exactly
\* that exception (type and message) to its caller.
C4_ErrorTransparency ==
    \A t \in Threads :
        (wrap[t].pc = "idle" /\ wrap[t].driven /\ wrap[t].coro.kind = "raise")
            => wrap[t].result = wrap[t].coro

\* C4 witness: a call whose coroutine raised has returned to its caller after
\* a failing shutdown of its loop.
C4_Witness ==
    \E t \in Threads :
        /\ wrap[t].pc = "idle" /\ wrap[t].driven
        /\ wrap[t].coro = Raise("LLMCoreError", "bad")
        /\ wrap[t].result.kind = "raise"
        /\ "Error during shutdown of tasks/asyncgens in created loop" \in logged

\* C5: at every moment the consumer has received exactly the items the async
\* generator has produced so far, in production order, each once; when the
\* generator has finished, that is all of its items.
C5_ItemsInOrder ==
    \A g \in PlainGens :
        /\ gens[g].produced = Iota(gens[g].agPos)
        /\ gens[g].emitted = gens[g].produced
        /\ gens[g].agState = "finished" => Len(gens[g].emitted) = gens[g].agPos

\* C5 witness: a generator was drained of MaxItems items while another
\* thread's stream was under way.
C5_Witness ==
    \E g \in PlainGens :
        /\ gens[g].exit = "exhausted"
        /\ Len(gens[g].emitted) = MaxItems
        /\ \E h \in PlainGens : h # g /\ gens[h].emitted # <<>>

\* C6: when the consumer stopped before exhaustion, the generator object is
\* over only after the async generator was closed inside the bridge's loop.
C6_AbandonedClosedInLoop ==
    \A g \in PlainGens :
        (gens[g].pc = "done" /\ gens[g].abandoned /\ gens[g].produced # <<>>)
            => gens[g].agFinal = "bridge_loop"

\* C8: an async generator that raised while being advanced does not make the
\* generator object raise into its consumer.
C8_AdvanceErrorNotReraised ==
    \A g \in PlainGens :
        gens[g].agState = "raised" => gens[g].exit # "raised"

C3_TerminalStateStable ==
    [][(~Uninitialized) =>
          /\ llmcore_instance' = llmcore_instance
          /\ llmcore_init_error' = llmcore_init_error]_vars

(***************************************************************************)
(* Claims about the bridge's loops and teardown (Spec)                     *)
(***************************************************************************)
OpenBridgeLoops(t) ==
    {l \in Loops : /\ loops[l].origin \in BridgeOrigins
                   /\ loops[l].thread = t
                   /\ loops[l].state = "open"}

\* C11: no thread ever has more than one loop created by the bridge that is
\* not closed yet, also while one of its generators is suspended between
\* yields and the thread makes another bridge call or advances another
\* generator.
C11_OneOpenLoopPerThread ==
    \A t \in Threads : Cardinality(OpenBridgeLoops(t)) <= 1

(***************************************************************************)
(* Claims about the endpoints (SpecRoutes)                                 *)
(***************************************************************************)
UnavailableMsg == "LLM service not available."

\* The service-unavailable outcome of a handler: the 503 JSON error, or an
\* event stream of exactly an error frame and the end frame.
IsUnavailableOutcome(r) ==
    \/ r = JsonError(r.route, 503, UnavailableMsg)
    \/ /\ r.stream = "none"
       /\ Len(r.frames) = 2
       /\ r.frames[1].type = "error"
       /\ r.frames[2].type = "end"

IsPrefix(s, t) == Len(s) <= Len(t) /\ \A i \in 1..Len(s) : s[i] = t[i]

\* C12: while the handle has no instance, a handler that answers a request
\* answers with the service-unavailable outcome, a chat stream that starts
\* yields the error frame (and then only the end frame), and no LLMCore
\* method is ever invoked with the handle in that state.
C12_UnavailableShortCircuit ==
    /\ [](\A c \in coreCalls : c.instance # NoInstance)
    /\ [](\A g \in ChatGens :
            (gens[g].produced # <<>> /\ gens[g].produced[1] = Frame("error", UnavailableMsg))
                => /\ IsPrefix(gens[g].produced, ErrorEndFrames(UnavailableMsg))
                   /\ gens[g].agState = "finished" =>
                          gens[g].produced = ErrorEndFrames(UnavailableMsg))
    /\ [][llmcore_instance = NoInstance =>
            /\ \A t \in Threads : resp'[t] # resp[t] => IsUnavailableOutcome(resp'[t])
            /\ \A g \in Gens :
                  (gens'[g].kind = "chat" /\ Len(gens'[g].produced) > Len(gens[g].produced)
                   /\ gens[g].hpc = "created")
                      => gens'[g].produced = <<Frame("error", UnavailableMsg)>>]_vars

\* C12 witness: with a failed handle, the chat endpoint answered 503, the
\* ingestion endpoint streamed error and end, and a chat stream was drained
\* to exactly error and end.
C12_Witness ==
    /\ llmcore_instance = NoInstance /\ llmcore_init_error # NoError
    /\ \E t \in Threads : resp[t] = JsonError("api_chat", 503, UnavailableMsg)
    /\ \E t \in Threads : resp[t].route = "ingest" /\ IsUnavailableOutcome(resp[t])
    /\ \E g \in ChatGens : /\ gens[g].exit = "exhausted"
                           /\ gens[g].emitted = ErrorEndFrames(UnavailableMsg)

(***************************************************************************)
(* Claims about the frames of a chat stream                                *)
(***************************************************************************)

\* C13: in a stream whose chat generator is exhausted without raising, a
\* post-stream lookup that fails or has nothing to report never produces an
\* error frame, and the drained stream ends with the end frame.
C13_MetadataFailureTolerated ==
    \A g \in ChatGens :
        routes_llmcore_instance # NoInstance =>
            /\ CountType(gens[g].produced, "error") = 0
            /\ gens[g].agState = "finished" =>
                  gens[g].produced[Len(gens[g].produced)].type = "end"

\* Chat streams over an available handle without a session id that the
\* consumer drained: every frame stems from the chat generator or from the
\* helper's except and finally clauses.
DrainedPlainChats ==
    {g \in ChatGens : /\ gens[g].exit = "exhausted"
                      /\ ~gens[g].chat.session
                      /\ gens[g].produced[1] # Frame("error", UnavailableMsg)}

ChunkFrames(n) == [i \in 1..n |-> Frame("chunk", ChunkText(i))]

\* C14: when the chat generator yields one chunk and then raises an error
\* with message "boom", whatever its type, the consumer receives exactly the
\* chunk frame, an error frame carrying "boom", and the end frame.
C14_ChunkErrorEnd ==
    \A g \in DrainedPlainChats :
        (gens[g].agPos = 1 /\ CountType(gens[g].emitted, "error") > 0)
            => gens[g].emitted = <<Frame("chunk", ChunkText(1)), Frame("error", "boom"),
                                   Frame("end", "")>>

\* C15: when the chat generator yields n chunks and completes and there is no
\* session id, the consumer receives exactly n+1 frames: the chunk frame of
\* each item, in order, then the end frame.
C15_ChunksThenEnd ==
    \A g \in DrainedPlainChats :
        CountType(gens[g].emitted, "error") = 0
            => gens[g].emitted = Append(ChunkFrames(gens[g].agPos), Frame("end", ""))

\* C15 witness: a drained stream of MaxItems chunks without a session id.
C15_Witness ==
    \E g \in DrainedPlainChats :
        /\ gens[g].agPos = MaxItems
        /\ Len(gens[g].emitted) = MaxItems + 1
        /\ CountType(gens[g].emitted, "chunk") = MaxItems

(***************************************************************************)
(* Further claims about the bridge (Spec)                                  *)
(***************************************************************************)

\* C16: whatever fails while the bridge cancels tasks, shuts down async
\* generators or tears down its loop, a finished wrapper call hands its
\* caller what the coroutine returned or raised, and a generator that was
\* exhausted or closed by its consumer does not raise.
C16_CleanupErrorsContained ==
    /\ \A t \in Threads :
          (wrap[t].pc = "idle" /\ wrap[t].driven) => wrap[t].result = wrap[t].coro
    /\ \A g \in Gens :
          (gens[g].pc = "done" /\ (gens[g].agState = "finished" \/ gens[g].abandoned))
              => gens[g].exit # "raised"

(***************************************************************************)
(* Further claims about the handle (SpecHandle)                            *)
(***************************************************************************)
ExactlyOneSet(inst, err) == (inst # NoInstance) # (err # NoError)

\* C17: the handle's instance and error message are never both set, and
\* once an initialization attempt has run to completion (every started
\* LLMCore.create() has finished, or a call of initialize_llmcore_async has
\* returned) exactly one of the two is set.
C17_InstanceXorError ==
    /\ ~(llmcore_instance # NoInstance /\ llmcore_init_error # NoError)
    /\ (createCalls > 0 /\ \A c \in Callers : initPc[c] # "awaiting")
          => ExactlyOneSet(llmcore_instance, llmcore_init_error)
    /\ \A c \in Callers :
          initPc[c] = "returned" =>
              /\ ExactlyOneSet(llmcore_instance, llmcore_init_error)
              /\ ExactlyOneSet(initObserved[c][1], initObserved[c][2])

\* C17 witness: a failed handle was initialized again by an external caller
\* whose LLMCore.create() succeeded.
C17_Witness ==
    \E c \in Callers :
        /\ initPc[c] = "returned" /\ initCall[c] > 0 /\ ~initUninit[c]
        /\ llmcore_instance = initCall[c]
        /\ llmcore_init_error = NoError

\* C18: once the handle is ready or failed and no call is in flight, a
\* further call of initialize_llmcore_async (like any other step) neither
\* invokes LLMCore.create() nor changes the handle.
C18_RepeatedInitIsNoOp ==
    [][(~Uninitialized /\ \A c \in Callers : initPc[c] # "awaiting") =>
          /\ createCalls' = createCalls
          /\ llmcore_instance' = llmcore_instance
          /\ llmcore_init_error' = llmcore_init_error]_vars

(***************************************************************************)
(* Claims about the lifetime of the bridge's loops (Spec)                  *)
(***************************************************************************)
BridgeLoops == {l \in Loops : loops[l].origin \in BridgeOrigins}

\* The calls in progress that own loop l: the wrapper call that created it,
\* or the started generator that created it.
LoopOwners(l) ==
    {<<"wrapper", t>> : t \in {u \in Threads : /\ wrap[u].pc # "idle"
                                               /\ wrap[u].created
                                               /\ wrap[u].loop = l}} \cup
    {<<"generator", g>> : g \in {h \in Gens : /\ gens[h].pc = "suspended"
                                              /\ gens[h].loop = l}}

\* C19 as stated: all bridge calls of a thread run on one loop that is
\* created on the thread's first call and never closed.
C19_OneCachedLoopPerThread ==
    /\ \A l1, l2 \in BridgeLoops : loops[l1].thread = loops[l2].thread => l1 = l2
    /\ \A l \in BridgeLoops : loops[l].state = "open"

\* C19 amended: every bridge call runs on a loop of its own, newly created
\* for the call: a loop created by the bridge is open only while the one
\* call that created it is in progress, and a call that starts outside a
\* running loop takes a loop that did not exist before.
C19_FreshLoopPerCall ==
    /\ [](\A l \in BridgeLoops :
            /\ Cardinality(LoopOwners(l)) <= 1
            /\ loops[l].state = "open" <=> LoopOwners(l) # {})
    /\ [][/\ \A t \in Threads :
               (wrap[t].pc = "idle" /\ wrap'[t].pc = "acquired" /\ running[t] = NoLoop)
                   => loops[wrap'[t].loop].state = "absent"
          /\ \A g \in Gens :
               (gens[g].pc = "created" /\ gens'[g].pc = "suspended")
                   => loops[gens'[g].loop].state = "absent"]_vars

\* C19 witness: one thread has made two bridge calls one after the other;
\* they ran on two different loops and both loops are closed.
C19_Witness ==
    \E l1, l2 \in BridgeLoops :
        /\ l1 # l2
        /\ loops[l1].thread = loops[l2].thread
        /\ loops[l1].state = "closed" /\ loops[l2].state = "closed"
        /\ loops[l1].drivers # {} /\ loops[l2].drivers # {}
        /\ wrap[loops[l1].thread].result.kind = "return"

\* C20: the async generator is advanced in lock-step with the consumer: it is
\* never more than one item ahead of what the consumer has received, a step
\* produces at most one item, and a step starts only when every item
\* produced so far has been handed to the consumer.
C20_LockStep ==
    /\ [](\A g \in Gens : Len(gens[g].produced) <= Len(gens[g].emitted) + 1)
    /\ [][\A g \in Gens :
            gens'[g].produced # gens[g].produced =>
                /\ gens[g].emitted = gens[g].produced
                /\ Len(gens'[g].produced) = Len(gens[g].produced) + 1
                /\ gens'[g].agPos <= gens[g].agPos + 1]_vars

\* C20 witness: the consumer has received MaxItems items and has not asked
\* for another one; the generator is suspended and has produced no more.
C20_Witness ==
    \E g \in PlainGens :
        /\ gens[g].pc = "suspended"
        /\ Len(gens[g].emitted) = MaxItems
        /\ gens[g].agPos = MaxItems
        /\ gens[g].agState = "suspended"

\* C21: a loop created by async_to_sync_in_flask is open only while the call
\* that created it is in progress, and when such a call returns or raises
\* its loop is closed and the thread's current loop is unset.
C21_WrapperLoopClosed ==
    /\ [](\A l \in Loops :
            (loops[l].origin = "wrapper" /\ loops[l].state = "open")
                => \E t \in Threads : wrap[t].pc # "idle" /\ wrap[t].loop = l)
    /\ [][\A t \in Threads :
            (wrap[t].pc = "ran" /\ wrap'[t].pc = "idle" /\ wrap[t].created)
                => /\ loops'[wrap[t].loop].state = "closed"
                   /\ current'[t] = NoLoop]_vars

\* C21 witness: one call returned a value and another raised its coroutine's
\* error; both calls' loops are closed and neither thread has a current loop.
C21_Witness ==
    \E t, u \in Threads :
        /\ wrap[t].pc = "idle" /\ wrap[t].created /\ wrap[t].result.kind = "return"
        /\ wrap[u].pc = "idle" /\ wrap[u].created /\ wrap[u].result = Raise("ValueError", "boom")
        /\ current[t] = NoLoop /\ current[u] = NoLoop
        /\ \A l \in Loops : loops[l].origin = "wrapper" => loops[l].state = "closed"
        /\ \E l \in Loops : loops[l].origin = "wrapper"

ForeignLoops == {l \in Loops : loops[l].origin = "foreign"}

CreateErrorMsgs == {InitErrorMsg(o.cls, o.msg) : o \in {x \in CreateOutcomes : ~x.ok}}

\* C23: when the LLMCore.create() that a call of initialize_llmcore_async
\* awaits is over, the call returns normally and no further create() is
\* started; if create() raised (no instance results) the handle has no
\* instance and carries the message built from the exception, otherwise it
\* holds the instance of that very call and no error. The same holds for a
\* guard's run of the function.
C23_CreateFailureRecorded ==
    [][/\ \A c \in Callers :
            (initPc[c] = "awaiting" /\ initPc'[c] # "awaiting") =>
                /\ initPc'[c] = "returned"
                /\ createCalls' = createCalls
                /\ llmcore_instance' = NoInstance => llmcore_init_error' \in CreateErrorMsgs
                /\ llmcore_instance' # NoInstance =>
                      (llmcore_instance' = initCall[c] /\ llmcore_init_error' = NoError)
       /\ (loadPhase' # loadPhase /\ createCalls' # createCalls) =>
                /\ createCalls' = createCalls + 1
                /\ llmcore_instance' = NoInstance => llmcore_init_error' \in CreateErrorMsgs
                /\ llmcore_instance' # NoInstance =>
                      (llmcore_instance' = createCalls' /\ llmcore_init_error' = NoError)]_vars

\* C23 witness: a call whose create() raised a plain Exception has returned;
\* the handle has no instance and the message, and no create() followed.
C23_Witness ==
    \E c \in Callers :
        /\ initPc[c] = "returned" /\ initCall[c] > 0
        /\ createCalls = initCall[c]
        /\ llmcore_instance = NoInstance
        /\ llmcore_init_error = InitErrorMsg("Exception", "boom")
        /\ initObserved[c] = <<llmcore_instance, llmcore_init_error>>

\* The RuntimeErrors with which asyncio.run() refuses to start because an
\* event loop is already running: the text CPython raises, and a text with
\* the phrase the guards look for.
RunningLoopErrors ==
    {"asyncio.run() cannot be called from a running event loop",
     "run() cannot be called when another loop is running"}

\* C24: the module-load guard leaves the handle uninitialized, ready or
\* failed (never both fields set), and a RuntimeError of asyncio.run() about
\* an already running loop is never recorded as an initialization error: the
\* handle stays uninitialized in that case.
C24_ModuleLoadTolerance ==
    [][(loadPhase = "module_load" /\ loadPhase' # loadPhase) =>
          /\ Uninitialized' \/ ExactlyOneSet(llmcore_instance', llmcore_init_error')
          /\ \A m \in RunningLoopErrors :
                llmcore_init_error' #
                    "Critical unhandled RuntimeError during LLMCore init at module load: " \o m]_vars

(***************************************************************************)
(* Claims about the status endpoint (SpecStatus)                           *)
(***************************************************************************)
ConfigUnavailableMsg == "LLMCore instance exists but its config is unavailable."

\* C25: every answer of the status endpoint reflects the handle at the time
\* of the request: llmcore_status is 'error' with the recorded message,
\* unchanged, exactly when an initialization error is recorded; it is
\* 'initializing' exactly when neither an error nor an instance is recorded;
\* with an instance it is 'operational' unless the instance has no config.
C25_StatusReflectsHandle ==
    [][\A t \in Threads :
          (resp'[t] # resp[t] /\ resp'[t].route = "api_status") =>
              LET p == resp'[t].payload IN
              /\ llmcore_init_error # NoError <=>
                    (p.llmcore_status = "error" /\ p.llmcore_error # ConfigUnavailableMsg)
              /\ llmcore_init_error # NoError => p.llmcore_error = llmcore_init_error
              /\ (llmcore_init_error = NoError /\ llmcore_instance = NoInstance) <=>
                    p.llmcore_status = "initializing"
              /\ (llmcore_init_error = NoError /\ llmcore_instance # NoInstance) =>
                    \/ p = [llmcore_status |-> "operational", llmcore_error |-> NoError]
                    \/ p = [llmcore_status |-> "error", llmcore_error |-> ConfigUnavailableMsg]]_vars

(***************************************************************************)
(* Claims about the metadata frames of a chat stream (SpecChat)            *)
(***************************************************************************)
MetaOrder == <<"rag_results", "full_response_id", "context_usage">>

IsMeta(f) == \E k \in 1..Len(MetaOrder) : f.type = MetaOrder[k]

MetaRank(f) == CHOOSE k \in 1..Len(MetaOrder) : f.type = MetaOrder[k]

\* C26: in the frames of a chat stream only chunk frames precede a chunk
\* frame and nothing follows the end frame, so metadata frames come after
\* every chunk and before end; metadata frames appear in the order
\* rag_results, full_response_id, context_usage, each at most once; a stream
\* with an error frame (the chat generator or a lookup raised, or the service
\* is unavailable) carries no metadata frame.
C26_MetadataAfterChunks ==
    \A g \in ChatGens :
        LET fs == gens[g].produced IN
        /\ \A i, j \in 1..Len(fs) :
              i < j => /\ fs[j].type = "chunk" => fs[i].type = "chunk"
                       /\ fs[i].type # "end"
                       /\ (IsMeta(fs[i]) /\ IsMeta(fs[j])) => MetaRank(fs[i]) < MetaRank(fs[j])
        /\ (\E i \in 1..Len(fs) : fs[i].type = "error") =>
              \A j \in 1..Len(fs) : ~IsMeta(fs[j])
        /\ gens[g].emitted = fs

\* C26 witness: a drained stream of two chunks, the three metadata frames in
\* order, and end.
C26_Witness ==
    \E g \in ChatGens :
        /\ gens[g].exit = "exhausted"
        /\ gens[g].emitted = <<Frame("chunk", ChunkText(1)), Frame("chunk", ChunkText(2)),
                               Frame("rag_results", "docs"), Frame("full_response_id", "msg1"),
                               Frame("context_usage", "usage"), Frame("end", "")>>

(***************************************************************************)
(* Claims about the file-ingestion stream (SpecIngest)                     *)
(***************************************************************************)
\* The frame types with their file index that a stream over the files from
\* index i on consists of.
RECURSIVE ExpectedIngestKeys(_, _)
ExpectedIngestKeys(files, i) ==
    IF i = Len(files)
    THEN <<<<"ingestion_complete", i>>, <<"end", 0>>>>
    ELSE (IF FileStarts(files[i + 1]) THEN <<<<"file_start", i>>>> ELSE <<>>)
         \o <<<<"file_end", i>>>> \o ExpectedIngestKeys(files, i + 1)

IngestKeys == [j \in 1..Len(ingest.frames) |->
                  <<ingest.frames[j].type, ingest.frames[j].file_index>>]

IngestRan == ingest.pc # "absent" /\ ~RouteUnavailable /\ ingest.apykatu

\* C27: the frames of a file-ingestion stream over k files are, per file in
\* file order, its file_start (when the upload object is valid) and exactly
\* one file_end, whatever happened to the files before it, then one
\* ingestion_complete and one end; a stream that has not finished has
\* yielded a prefix of that sequence.
C27_OneFileEndPerFile ==
    IngestRan =>
        /\ IsPrefix(IngestKeys, ExpectedIngestKeys(ingest.files, 0))
        /\ ingest.pc = "finished" => IngestKeys = ExpectedIngestKeys(ingest.files, 0)

\* C27 witness: a finished stream over two files, the first of which failed
\* after its file_start and the second of which was ingested.
C27_Witness ==
    /\ IngestRan /\ ingest.pc = "finished"
    /\ Len(ingest.files) = 2
    /\ ingest.frames[2] = IngestFrame("file_end", 0, "error", NoSummary)
    /\ ingest.frames[4] = IngestFrame("file_end", 1, "success", NoSummary)

FileEnds(ok) ==
    Cardinality({j \in 1..Len(ingest.frames) :
                    /\ ingest.frames[j].type = "file_end"
                    /\ (ingest.frames[j].status = "success") = ok})

\* C28: the summary of every ingestion_complete frame counts the files whose
\* file_end said success and those whose file_end said otherwise; the two
\* counts add up to the number of files submitted, and the status is
\* no_files_processed iff no file was submitted, success iff there are files
\* and none had an error, completed_with_some_errors iff some had an error
\* and some succeeded, completed_with_all_errors iff some had an error and
\* none succeeded.
C28_SummaryCounts ==
    \A j \in 1..Len(ingest.frames) :
        ingest.frames[j].type = "ingestion_complete" =>
            LET m == ingest.frames[j].summary IN
            /\ m.total = Len(ingest.files)
            /\ m.ok = FileEnds(TRUE)
            /\ m.errors = FileEnds(FALSE)
            /\ m.ok + m.errors = m.total
            /\ m.status = "no_files_processed" <=> m.total = 0
            /\ m.status = "success" <=> (m.total > 0 /\ FileEnds(FALSE) = 0)
            /\ m.status = "completed_with_some_errors" <=>
                  (FileEnds(FALSE) > 0 /\ FileEnds(TRUE) > 0)
            /\ m.status = "completed_with_all_errors" <=>
                  (FileEnds(FALSE) > 0 /\ FileEnds(TRUE) = 0)

\* C28 witness: a finished stream whose summary reports one ingested file and
\* one file without chunks.
C28_Witness ==
    /\ ingest.pc = "finished"
    /\ \E j \in 1..Len(ingest.frames) :
          /\ ingest.frames[j].type = "ingestion_complete"
          /\ ingest.frames[j].summary =
                [total |-> 2, ok |-> 1, errors |-> 1, status |-> "completed_with_some_errors"]
    /\ \E j \in 1..Len(ingest.frames) :
          ingest.frames[j].status = "warning_no_chunks_produced"

(***************************************************************************)
(* Claims about the session routes (SpecSession)                           *)
(***************************************************************************)
\* C30: a request to delete session sid leaves the client's current session
\* id None if the core library reported the deletion and sid was the current
\* id, and leaves it unchanged otherwise (not found, an exception, another
\* session, service unavailable); the id becomes None only by such a request.
C30_DeleteClearsCurrent ==
    [][/\ \A t \in Threads, sid \in SessionIds :
             (resp'[t] # resp[t] /\ resp'[t].route = DeleteRoute(sid)) =>
                 current_llm_session_id' =
                     IF resp'[t].status = 200 /\ current_llm_session_id = sid
                     THEN NoSession ELSE current_llm_session_id
       /\ (current_llm_session_id' = NoSession /\ current_llm_session_id # NoSession) =>
             \E t \in Threads : resp'[t] = JsonOk(DeleteRoute(current_llm_session_id))]_vars

\* C30 witness: session s1 was loaded as the current session and then
\* deleted: the current id is None again.
C30_Witness ==
    /\ resp[NumThreads] = JsonOk(LoadRoute("s1"))
    /\ resp[1] = JsonOk(DeleteRoute("s1"))
    /\ current_llm_session_id = NoSession

(***************************************************************************)
(* Claims about the handle the route modules consult (SpecRoutes)          *)
(***************************************************************************)
\* C29: once the route modules are imported, the name llmcore_instance they
\* consult has the value of the app module's global, and while the app's
\* handle is ready no handler answers with the service-unavailable outcome.
C29_RoutesSeeAppHandle ==
    /\ [](loadPhase \in {"direct_run", "serving"} =>
             routes_llmcore_instance = llmcore_instance)
    /\ [][llmcore_instance # NoInstance =>
             \A t \in Threads :
                resp'[t] # resp[t] =>
                    /\ resp'[t] # JsonError(resp'[t].route, 503, UnavailableMsg)
                    /\ resp'[t].frames # ErrorEndFrames(UnavailableMsg)]_vars

====
